---------------------------- MODULE Spec2Model ----------------------------
(***************************************************************************)
(* The retrieval (RAG) index of DataForge-Reader: the process-wide         *)
(* rag_index of backend/routers/rag.py, the handlers that mutate it        *)
(* (index, parse-time auto-index, bulk index, exported-dataset index,      *)
(* remove), search over it, and the files the handlers read and write.     *)
(*                                                                         *)
(* Strings are sequences of one-character strings, so that f-string        *)
(* concatenation and str.startswith are computed character by character.   *)
(* Floats are fixed-point: an embedding component, a similarity and a      *)
(* threshold are integer numbers of hundredths.                            *)
(***************************************************************************)
EXTENDS Integers, Sequences, FiniteSets, TLC

VARIABLES
    documents,         \* rag_index['documents']: list of RAG documents
    embeddings,        \* rag_index['embeddings']: dict id -> vector
    indexed_datasets,  \* rag_index['indexed_datasets']: set of ids
    stats,             \* rag_index['stats']
    cache,             \* storage/cache/<file_id>_parsed.json, per file id
    exports,           \* dataset_exports/<file_id>_export.csv, per file id
    disk,              \* storage/rag/rag_index.json
    now,               \* the wall clock, in seconds; the requests modelled fall in one second
    last,              \* the request served by the last step and its response
    in_flight          \* the requests the event loop has accepted and not yet run

vars == <<documents, embeddings, indexed_datasets, stats, cache, exports,
          disk, now, last, in_flight>>

store == <<documents, embeddings, indexed_datasets, stats>>

-----------------------------------------------------------------------------
(* Bounds of the model.                                                    *)

\* the handlers that append are not taken once the list holds MaxDocs documents
MaxDocs == 2

-----------------------------------------------------------------------------
(* Strings.                                                                *)

StartsWith(s, p) == Len(p) <= Len(s) /\ SubSeq(s, 1, Len(p)) = p

\* ord(char) for the characters the model's texts are made of
Ord(c) ==
    CASE c = " " -> 32
      [] c = "_" -> 95
      [] c = "0" -> 48
      [] c = "1" -> 49
      [] c = "2" -> 50
      [] c = "a" -> 97
      [] c = "b" -> 98
      [] c = "c" -> 99
      [] c = "h" -> 104
      [] c = "i" -> 105
      [] c = "k" -> 107
      [] c = "l" -> 108
      [] c = "o" -> 111
      [] c = "p" -> 112
      [] c = "r" -> 114
      [] c = "u" -> 117
      [] c = "v" -> 118
      [] c = "w" -> 119
      [] c = "x" -> 120
      [] c = "y" -> 121
      [] c = ":" -> 58
      [] c = "|" -> 124
      [] c = "R" -> 82
      [] c = "T" -> 84
      [] c = "d" -> 100
      [] c = "e" -> 101
      [] c = "f" -> 102
      [] c = "g" -> 103
      [] c = "j" -> 106
      [] c = "m" -> 109
      [] c = "n" -> 110
      [] c = "q" -> 113
      [] c = "s" -> 115
      [] c = "t" -> 116
      [] c = "z" -> 122
      [] c = "." -> 46

\* str(n) for the small naturals the model renders
IntToStr(n) ==
    CASE n = 0 -> <<"0">>
      [] n = 1 -> <<"1">>
      [] n = 2 -> <<"2">>
      [] n = 3 -> <<"3">>
      [] n = 4 -> <<"4">>
      [] OTHER -> <<"5">>

\* JSON values: a string (its characters in s), a number (in n) or null
JStr(chars) == [t |-> "str", s |-> chars, n |-> 0]
JNum(num) == [t |-> "num", s |-> <<>>, n |-> num]
JNull == [t |-> "null", s |-> <<>>, n |-> 0]

\* bool(value)
Truthy(v) ==
    CASE v.t = "str" -> v.s # <<>>
      [] v.t = "num" -> v.n # 0
      [] OTHER -> FALSE

\* str(value)
Render(v) ==
    CASE v.t = "str" -> v.s
      [] v.t = "num" -> IntToStr(v.n)
      [] OTHER -> <<"N", "o", "n", "e">>

\* s.strip(): leading and trailing spaces removed
RECURSIVE Strip(_)
Strip(s) ==
    IF s = <<>> THEN s
    ELSE IF Head(s) = " " THEN Strip(Tail(s))
    ELSE IF s[Len(s)] = " " THEN Strip(SubSeq(s, 1, Len(s) - 1))
    ELSE s

\* s[:n]
Truncate(s, n) == IF Len(s) > n THEN SubSeq(s, 1, n) ELSE s


-----------------------------------------------------------------------------
(* Embedding and similarity.                                               *)

EmbeddingDim == 384
HashModulus == 1000000

RECURSIVE HashBetween(_, _, _, _)
\* the loop of simple_hash over characters lo..hi, entered with hash_val: the
\* first half of the run, then the second.  Python's integer is unbounded and
\* never negative here (each step adds to 31 times a natural); its only use
\* is modulo HashModulus, so the residue is carried instead.
HashBetween(text, lo, hi, hash_val) ==
    IF lo > hi THEN hash_val
    ELSE IF lo = hi THEN ((hash_val * 32 - hash_val) + Ord(text[lo])) % HashModulus
    ELSE LET mid == (lo + hi) \div 2
             first == HashBetween(text, lo, mid, hash_val)
         IN  \* the test is always true; it has TLC compute the first half
             \* before it enters the second
             IF first >= 0 THEN HashBetween(text, mid + 1, hi, first) ELSE first

\* simple_hash: hash_val = ((hash_val << 5) - hash_val) + ord(char); abs()
simple_hash(text) ==
    LET h == HashBetween(text, 1, Len(text), 0) IN IF h < 0 THEN 0 - h ELSE h

\* create_simple_embedding, of the characters of a str.  The vector is spread
\* from hash_val alone, so the model holds an embedding as its hash_val and
\* expands it with Components where the numbers are used.
create_simple_embedding(text) == simple_hash(text) % HashModulus

\* the EmbeddingDim components of an embedding: component i (from 0) is
\* ((hash_val + i) * 0.01) % 2 - 1, here in hundredths
Components(hash_val) ==
    [k \in 1..EmbeddingDim |-> ((hash_val + (k - 1)) % 200) - 100]

\* iterating a 'text' that is not a str raises TypeError
EmbeddingRaises(jtext) == jtext.t # "str"


RECURSIVE DotBetween(_, _, _, _)
\* the sum of a[k] * b[k] for k in lo..hi, by halves
DotBetween(a, b, lo, hi) ==
    IF lo > hi THEN 0
    ELSE IF lo = hi THEN a[lo] * b[lo]
    ELSE LET mid == (lo + hi) \div 2
         IN  DotBetween(a, b, lo, mid) + DotBetween(a, b, mid + 1, hi)

\* sum(x * y for x, y in zip(a, b)), in ten-thousandths
Dot(a, b) == DotBetween(a, b, 1, IF Len(a) < Len(b) THEN Len(a) ELSE Len(b))

RECURSIVE ISqrtBetween(_, _, _)
ISqrtBetween(n, lo, hi) ==
    IF lo >= hi THEN lo
    ELSE LET mid == (lo + hi + 1) \div 2
         IN  IF mid * mid <= n THEN ISqrtBetween(n, mid, hi)
             ELSE ISqrtBetween(n, lo, mid - 1)

\* n ** 0.5 rounded down; n is at most EmbeddingDim * 100 * 100
ISqrt(n) == ISqrtBetween(n, 0, 2000)

\* the first norm taken twice
cosine_similarity_FirstNormTwice(a, b) ==
    LET dot_product == Dot(a, b)
        norm_a == ISqrt(Dot(a, a))
        norm_b == ISqrt(Dot(b, b))
    IN  IF norm_a # 0 /\ norm_b # 0 THEN (dot_product * 100) \div (norm_a * norm_a)
        ELSE 0

\* cosine_similarity, in hundredths rounded down: dot / (norm_a * norm_b), and 0
\* when a norm is 0
cosine_similarity(a, b) ==
    LET dot_product == Dot(a, b)
        norm_a == ISqrt(Dot(a, a))
        norm_b == ISqrt(Dot(b, b))
    IN  IF norm_a # 0 /\ norm_b # 0 THEN (dot_product * 100) \div (norm_a * norm_b)
        ELSE 0

-----------------------------------------------------------------------------
(* Conversion of source records to RAG documents.                          *)

\* f"Document {file_id}"
DefaultName(file_id) == <<"D", "o", "c", " ">> \o file_id

\* request.dataset_name or default: None and "" are both falsy
NameOr(dataset_name, default) == IF dataset_name # <<>> THEN dataset_name ELSE default

\* f"{file_id}_{paragraph['id']}"
ParagraphDocId(file_id, paragraph_id) == file_id \o <<"_">> \o paragraph_id

\* f"{dataset['id']}_row_{idx}"
RowDocId(dataset_id, idx) == dataset_id \o <<"_", "r", "o", "w", "_">> \o IntToStr(idx)

convert_parsed_data_to_rag_documents(file_id, paragraphs, dataset_name) ==
    [k \in 1..Len(paragraphs) |->
        [id          |-> ParagraphDocId(file_id, paragraphs[k].id),
         datasetId   |-> file_id,
         datasetName |-> dataset_name,
         fullText    |-> paragraphs[k].text,
         category    |-> "paragraph",
         rowIndex    |-> k - 1,
         metadata    |-> [page |-> paragraphs[k].page]]]

\* the row's (key, value) pairs that pass `if value and str(value).strip()`
RECURSIVE RowFields(_, _)
RowFields(row, i) ==
    IF i > Len(row) THEN <<>>
    ELSE IF Truthy(row[i].value) /\ Strip(Render(row[i].value)) # <<>>
         THEN <<row[i]>> \o RowFields(row, i + 1)
         ELSE RowFields(row, i + 1)

\* " | ".join(f"{key}: {value}" for the fields kept)
RECURSIVE JoinFields(_, _)
JoinFields(fields, i) ==
    IF i > Len(fields) THEN <<>>
    ELSE (IF i > 1 THEN <<" ", "|", " ">> ELSE <<>>)
         \o fields[i].key \o <<":", " ">> \o Render(fields[i].value)
         \o JoinFields(fields, i + 1)

\* full_text of row idx: the join, or f"Row {idx}" when no field is kept
RowFullText(row, idx) ==
    LET text_parts == RowFields(row, 1)
    IN  IF text_parts # <<>> THEN JoinFields(text_parts, 1)
        ELSE <<"R", "o", "w", " ">> \o IntToStr(idx)

convert_dataset_to_rag_documents(dataset) ==
    [k \in 1..Len(dataset.data) |->
        [id          |-> RowDocId(dataset.id, k - 1),
         datasetId   |-> dataset.id,
         datasetName |-> dataset.name,
         fullText    |-> JStr(RowFullText(dataset.data[k], k - 1)),
         category    |-> "dataset_row",
         rowIndex    |-> k - 1,
         metadata    |-> [row_index |-> k - 1,
                          format |-> dataset.format,
                          fields |-> [j \in 1..Len(RowFields(dataset.data[k], 1)) |->
                                        [key |-> RowFields(dataset.data[k], 1)[j].key,
                                         value |-> Truncate(Render(
                                             RowFields(dataset.data[k], 1)[j].value), 100)]]]]]

-----------------------------------------------------------------------------
(* The indexing loop shared by the four indexing handlers.                 *)

\* the membership test left out: every document of the batch is embedded and appended
NotIndexed_NoDedup(id, embs) == TRUE

\* doc['id'] not in rag_index['embeddings']
NotIndexed(id, embs) == id \notin DOMAIN embs

\* rag_index['embeddings'][id] = embedding
PutEmbedding(embs, id, embedding) ==
    [k \in DOMAIN embs \cup {id} |-> IF k = id THEN embedding ELSE embs[k]]

RECURSIVE IndexLoop(_, _, _)
\* for doc in rag_documents: embed and append the documents whose id has no
\* embedding yet.  acc = [documents, embeddings, indexed_count, raised]; the loop
\* stops where create_simple_embedding raises, keeping what it did so far.
IndexLoop(rag_documents, i, acc) ==
    IF i > Len(rag_documents) THEN acc
    ELSE LET doc == rag_documents[i] IN
         IF NotIndexed(doc.id, acc.embeddings)
         THEN IF EmbeddingRaises(doc.fullText)
              THEN [acc EXCEPT !.raised = TRUE]
              ELSE IndexLoop(rag_documents, i + 1,
                     [documents     |-> Append(acc.documents, doc),
                      embeddings    |-> PutEmbedding(acc.embeddings, doc.id,
                                          create_simple_embedding(doc.fullText.s)),
                      indexed_count |-> acc.indexed_count + 1,
                      raised        |-> FALSE])
         ELSE IndexLoop(rag_documents, i + 1, acc)

IndexBatch(rag_documents, docs, embs) ==
    IndexLoop(rag_documents, 1,
              [documents |-> docs, embeddings |-> embs, indexed_count |-> 0,
               raised |-> FALSE])

\* the "Update stats" block after the loop
StatsAfterIndex(st, idx, dataset_id, indexed_count, t) ==
    [total_documents  |-> st.total_documents + indexed_count,
     indexed_datasets |-> IF dataset_id \notin idx THEN st.indexed_datasets + 1
                          ELSE st.indexed_datasets,
     last_updated     |-> t]

-----------------------------------------------------------------------------
(* Persistence.                                                            *)

\* rag_index['stats'] of a fresh process; last_updated None is -1
InitStats == [total_documents |-> 0, indexed_datasets |-> 0, last_updated |-> -1]

\* rag_index of a fresh process
EmptyStore ==
    [documents |-> <<>>, embeddings |-> <<>>, indexed_datasets |-> {}, stats |-> InitStats]

\* Values of the fields of rag_index.json: t is the JSON type ("absent" for a
\* key the object lacks), v the elements of an array or the members of an
\* object
JArray(elements) == [t |-> "array", v |-> elements]
JObject(members) == [t |-> "object", v |-> members]
JNumber == [t |-> "number", v |-> <<>>]
JAbsent == [t |-> "absent", v |-> <<>>]

\* the file: absent, not parseable as a JSON object, or a JSON object
IndexFileContent(state, docs, embs, idx, st) ==
    [kind |-> state, documents |-> docs, embeddings |-> embs, indexed_datasets |-> idx,
     stats |-> st]

NoIndexFile == IndexFileContent("absent", JAbsent, JAbsent, JAbsent, JAbsent)
UnparseableIndexFile == IndexFileContent("unparseable", JAbsent, JAbsent, JAbsent, JAbsent)

RECURSIVE ListOf(_)
\* list(a_set): the elements, each once, in the order the set yields them
ListOf(a_set) ==
    IF a_set = {} THEN <<>>
    ELSE LET x == CHOOSE y \in a_set : TRUE IN <<x>> \o ListOf(a_set \ {x})

Member(k, val) == [key |-> k, value |-> val]

\* the members json.dump writes for dict(rag_index['embeddings'])
MembersOf(embs) ==
    LET keys == ListOf(DOMAIN embs)
    IN  [i \in 1..Len(keys) |-> Member(keys[i], embs[keys[i]])]

\* {k: v for k, v in members}: a key given twice keeps its last value
DictOf(members) ==
    LET Last(k) == CHOOSE i \in 1..Len(members) :
                       /\ members[i].key = k
                       /\ \A j \in (i + 1)..Len(members) : members[j].key # k
    IN  [k \in {members[i].key : i \in 1..Len(members)} |-> members[Last(k)].value]

\* set(a_list)
SetOf(a_list) == {a_list[i] : i \in 1..Len(a_list)}

\* save_data of save_rag_index
save_data(docs, embs, idx, st) ==
    IndexFileContent("json", JArray(docs), JObject(MembersOf(embs)), JArray(ListOf(idx)),
               JObject(<<st>>))

\* a save that writes nothing
save_rag_index_Stale(saving, old, docs, embs, idx, st) == old

\* save_rag_index: a failure is printed and swallowed.  "written": the file
\* holds save_data; "refused": makedirs or open fails and the file is as it
\* was; "torn": open(index_file, 'w') has truncated the file and json.dump
\* fails part-way, leaving text that is no JSON document
save_rag_index(saving, old, docs, embs, idx, st) ==
    CASE saving = "written" -> save_data(docs, embs, idx, st)
      [] saving = "refused" -> old
      [] saving = "torn"    -> UnparseableIndexFile

\* the file's stats not read
load_rag_index_StatsNotRead(file, cur) ==
    IF file.kind # "json" THEN cur
    ELSE [documents        |-> file.documents.v,
          embeddings       |-> DictOf(file.embeddings.v),
          indexed_datasets |-> SetOf(file.indexed_datasets.v),
          stats            |-> cur.stats]

\* load_rag_index: the assignments up to the first one that raises; the
\* exception is printed and swallowed.  cur is rag_index before the call.
load_rag_index(file, cur) ==
    IF file.kind # "json" THEN cur
    ELSE
    LET s1 == [cur EXCEPT !.documents = file.documents.v]
        s2 == [s1 EXCEPT !.embeddings = DictOf(file.embeddings.v)]
        s3 == [s2 EXCEPT !.indexed_datasets = SetOf(file.indexed_datasets.v)]
        s4 == [s3 EXCEPT !.stats = IF file.stats.t = "absent" THEN cur.stats
                                   ELSE file.stats.v[1]]
    IN  IF file.embeddings.t \notin {"object", "absent"} THEN s1
        ELSE IF file.indexed_datasets.t \notin {"array", "absent"} THEN s2
        ELSE s4

-----------------------------------------------------------------------------
(* Responses.                                                              *)

\* what `last` records of a request: the handler, the request, the status and
\* body of the response, and whether the request repeats the one served just
\* before it, which succeeded
Response(handler, req, code, content) ==
    [op |-> handler, request |-> req, status |-> code, body |-> content,
     repeat |-> last.op = handler /\ last.status = 200 /\ last.request = req,
     save |-> "none"]

\* the response of a handler that called save_rag_index, with how the save went
SavedResponse(saving, handler, req, code, content) ==
    [Response(handler, req, code, content) EXCEPT !.save = saving]

NoBody == [detail |-> "error"]

-----------------------------------------------------------------------------
(* The files the handlers read: inputs of the model.                       *)

FileA == <<"a">>
FileAB == <<"a", "_", "b">>
\* the file ids of requests; FileA followed by '_' is a prefix of FileAB
FileIds == {FileA, FileAB}

\* f"p_{page_num}_{i}"
ParagraphId(page_num, i) == <<"p", "_">> \o IntToStr(page_num) \o <<"_">> \o IntToStr(i)

Paragraph(pid, ptext, ppage) == [id |-> pid, text |-> ptext, page |-> ppage]

TextHi == JStr(<<"h", "i">>)
TextYo == JStr(<<"y", "o">>)

OneParagraph == <<Paragraph(ParagraphId(1, 0), TextHi, 1)>>
TwoParagraphs ==
    <<Paragraph(ParagraphId(1, 0), TextHi, 1), Paragraph(ParagraphId(1, 1), TextYo, 1)>>
\* the second paragraph's 'text' is null
BadSecondParagraph ==
    <<Paragraph(ParagraphId(1, 0), TextHi, 1), Paragraph(ParagraphId(1, 1), JNull, 1)>>

\* what extraction may yield for an uploaded file: one or two paragraphs
ExtractionOutputs(file_id) ==
    IF file_id = FileA THEN {OneParagraph, TwoParagraphs} ELSE {OneParagraph}

\* a <file_id>_parsed.json that parse_file did not write
ForeignParsedData(file_id) ==
    IF file_id = FileA THEN {BadSecondParagraph} ELSE {}

NoFile == [exists |-> FALSE, paragraphs |-> <<>>]
ParsedFile(ps) == [exists |-> TRUE, paragraphs |-> ps]

Field(k, v) == [key |-> k, value |-> v]

\* the rows an exported dataset may hold: one row with one text column
ExportedRows(file_id) ==
    IF file_id = FileAB THEN { << <<Field(<<"c">>, JStr(<<"v">>))>> >> } ELSE {}

NoExport == [exists |-> FALSE, format |-> "csv", rows |-> <<>>]
ExportFile(fmt, data) == [exists |-> TRUE, format |-> fmt, rows |-> data]

\* the collection names of bulk requests
CollectionNames == {<<"x">>}
\* max_documents of bulk requests; 0 stands for None (both falsy)
MaxDocumentsChoices == {0, 1}

RECURSIVE ListingOrders(_)
\* the orders os.listdir may list a set of files in
ListingOrders(files) ==
    IF files = {} THEN {<<>>}
    ELSE UNION {{<<f>> \o rest : rest \in ListingOrders(files \ {f})} : f \in files}

-----------------------------------------------------------------------------
(* Initial state: load_rag_index at import finds no rag_index.json.        *)

\* no request waiting: requests is the list of accepted requests, done the
\* positions of those that have run, held whether the store was consistent
\* when they were accepted
NoneInFlight == [requests |-> <<>>, done |-> {}, held |-> FALSE]

NoRequest ==
    [op |-> "start", request |-> [none |-> TRUE], status |-> 200, body |-> NoBody,
     repeat |-> FALSE, save |-> "none"]

Init ==
    /\ documents = <<>>
    /\ embeddings = <<>>
    /\ indexed_datasets = {}
    /\ stats = InitStats
    /\ cache = [f \in FileIds |-> NoFile]
    /\ exports = [f \in FileIds |-> NoExport]
    /\ disk = NoIndexFile
    /\ now = 0
    /\ last = NoRequest
    /\ in_flight = NoneInFlight

-----------------------------------------------------------------------------
(* POST /rag/index                                                         *)

IndexRequest(f, name) == [file_id |-> f, dataset_name |-> name]

index_document_for_rag(file_id, req_name, saving) ==
    LET request == IndexRequest(file_id, req_name) IN
    IF ~cache[file_id].exists
    THEN /\ last' = Response("index", request, 404, NoBody)
         /\ UNCHANGED <<store, cache, exports, disk, now>>
    ELSE
    LET dataset_name == NameOr(req_name, DefaultName(file_id))
        rag_documents == convert_parsed_data_to_rag_documents(
                             file_id, cache[file_id].paragraphs, dataset_name)
        r == IndexBatch(rag_documents, documents, embeddings)
        new_stats == StatsAfterIndex(stats, indexed_datasets, file_id, r.indexed_count, now)
    IN  /\ Len(r.documents) <= MaxDocs
        /\ documents' = r.documents
        /\ embeddings' = r.embeddings
        /\ IF r.raised
           THEN /\ last' = Response("index", request, 500, NoBody)
                /\ UNCHANGED <<indexed_datasets, stats, disk>>
           ELSE /\ indexed_datasets' = indexed_datasets \cup {file_id}
                /\ stats' = new_stats
                /\ disk' = save_rag_index(saving, disk, r.documents, r.embeddings,
                                          indexed_datasets \cup {file_id}, new_stats)
                /\ last' = SavedResponse(saving, "index", request, 200,
                              [file_id |-> file_id, dataset_name |-> dataset_name,
                               indexed_paragraphs |-> r.indexed_count,
                               total_documents |-> new_stats.total_documents])
        /\ UNCHANGED <<cache, exports, now>>

-----------------------------------------------------------------------------
(* DELETE /rag/dataset/{dataset_id}                                        *)

\* [doc for doc in rag_index['documents'] if doc['datasetId'] != dataset_id]
DocumentsKept(docs, dataset_id) ==
    LET Keep(doc) == doc.datasetId # dataset_id IN SelectSeq(docs, Keep)

\* the keys compared with the dataset id itself
embeddings_to_remove_ExactKey(embs, dataset_id) ==
    {doc_id \in DOMAIN embs : doc_id = dataset_id}

\* [doc_id for doc_id in embeddings.keys() if doc_id.startswith(f"{dataset_id}_")]
embeddings_to_remove(embs, dataset_id) ==
    {doc_id \in DOMAIN embs : StartsWith(doc_id, dataset_id \o <<"_">>)}

\* a NotFound that stamps the statistics
remove_rag_dataset_StampsNotFound(dataset_id, saving) ==
    /\ dataset_id \notin indexed_datasets
    /\ stats' = [stats EXCEPT !.last_updated = now]
    /\ last' = Response("remove", [dataset_id |-> dataset_id], 404, NoBody)
    /\ UNCHANGED <<documents, embeddings, indexed_datasets, cache, exports, disk, now>>

remove_rag_dataset(dataset_id, saving) ==
    LET request == [dataset_id |-> dataset_id] IN
    IF dataset_id \notin indexed_datasets
    THEN /\ last' = Response("remove", request, 404, NoBody)
         /\ UNCHANGED <<store, cache, exports, disk, now>>
    ELSE
    LET docs == DocumentsKept(documents, dataset_id)
        gone == embeddings_to_remove(embeddings, dataset_id)
        embs == [k \in DOMAIN embeddings \ gone |-> embeddings[k]]
        idx == indexed_datasets \ {dataset_id}
        new_stats == [total_documents  |-> Len(docs),
                      indexed_datasets |-> stats.indexed_datasets - 1,
                      last_updated     |-> now]
    IN  /\ documents' = docs
        /\ embeddings' = embs
        /\ indexed_datasets' = idx
        /\ stats' = new_stats
        /\ disk' = save_rag_index(saving, disk, docs, embs, idx, new_stats)
        /\ last' = SavedResponse(saving, "remove", request, 200,
                            [removed_documents |-> Cardinality(gone)])
        /\ UNCHANGED <<cache, exports, now>>

-----------------------------------------------------------------------------
(* POST /parse: extraction, save_to_cache, then the auto-index block.      *)

\* the stored upload's name, <file_id><ext>
UploadName(file_id) == file_id \o <<".", "p", "d", "f">>

parse_file(file_id, paragraphs, saving) ==
    LET request == [file_id |-> file_id]
        dataset_name == NameOr(UploadName(file_id), DefaultName(file_id))
        rag_documents == convert_parsed_data_to_rag_documents(
                             file_id, paragraphs, dataset_name)
        r == IndexBatch(rag_documents, documents, embeddings)
        new_stats == StatsAfterIndex(stats, indexed_datasets, file_id, r.indexed_count, now)
    IN  /\ Len(r.documents) <= MaxDocs
        /\ cache' = [cache EXCEPT ![file_id] = ParsedFile(paragraphs)]
        /\ documents' = r.documents
        /\ embeddings' = r.embeddings
        /\ IF r.raised
           THEN UNCHANGED <<indexed_datasets, stats, disk>>
           ELSE /\ indexed_datasets' = indexed_datasets \cup {file_id}
                /\ stats' = new_stats
                /\ disk' = save_rag_index(saving, disk, r.documents, r.embeddings,
                                          indexed_datasets \cup {file_id}, new_stats)
        /\ last' = SavedResponse(IF r.raised THEN "none" ELSE saving, "parse", request, 200,
                            [file_id |-> file_id, paragraphs |-> paragraphs])
        /\ UNCHANGED <<exports, now>>

-----------------------------------------------------------------------------
(* POST /rag/index-dataset: bulk index of every parsed file in the cache.  *)

\* f"bulk_{request.dataset_name}_{int(time.time())}"
BulkDatasetId(dataset_name, t) ==
    <<"b", "u", "l", "k", "_">> \o dataset_name \o <<"_">> \o IntToStr(t)

RECURSIVE BulkLoop_StopsAtFailure(_, _, _, _)
\* the loop left at the first source that fails
BulkLoop_StopsAtFailure(parsed_files, i, dataset_name, acc) ==
    IF i > Len(parsed_files) THEN acc
    ELSE LET file_id == parsed_files[i]
             rag_documents == convert_parsed_data_to_rag_documents(
                                  file_id, cache[file_id].paragraphs, dataset_name)
             r == IndexBatch(rag_documents, acc.documents, acc.embeddings)
         IN  IF r.raised
             THEN [documents     |-> r.documents,
                   embeddings    |-> r.embeddings,
                   total_indexed |-> acc.total_indexed,
                   failed_files  |-> Append(acc.failed_files, file_id)]
             ELSE BulkLoop_StopsAtFailure(parsed_files, i + 1, dataset_name,
                    [documents     |-> r.documents,
                     embeddings    |-> r.embeddings,
                     total_indexed |-> acc.total_indexed + r.indexed_count,
                     failed_files  |-> acc.failed_files])

RECURSIVE BulkLoop(_, _, _, _)
\* for parsed_file in parsed_files, each in its own try/except.
\* acc = [documents, embeddings, total_indexed, failed_files]
BulkLoop(parsed_files, i, dataset_name, acc) ==
    IF i > Len(parsed_files) THEN acc
    ELSE LET file_id == parsed_files[i]
             rag_documents == convert_parsed_data_to_rag_documents(
                                  file_id, cache[file_id].paragraphs, dataset_name)
             r == IndexBatch(rag_documents, acc.documents, acc.embeddings)
         IN  BulkLoop(parsed_files, i + 1, dataset_name,
                [documents     |-> r.documents,
                 embeddings    |-> r.embeddings,
                 total_indexed |-> IF r.raised THEN acc.total_indexed
                                   ELSE acc.total_indexed + r.indexed_count,
                 failed_files  |-> IF r.raised THEN Append(acc.failed_files, file_id)
                                   ELSE acc.failed_files])

\* parsed_files[:request.max_documents] when max_documents is truthy
LimitFiles(parsed_files, max_documents) ==
    IF max_documents # 0 THEN Truncate(parsed_files, max_documents) ELSE parsed_files

index_ebook_dataset(dataset_name, max_documents, listing, saving) ==
    LET request == [dataset_name |-> dataset_name, max_documents |-> max_documents,
                    listing |-> listing] IN
    IF listing = <<>>
    THEN /\ last' = Response("bulk", request, 404, NoBody)
         /\ UNCHANGED <<store, cache, exports, disk, now>>
    ELSE
    LET dataset_id == BulkDatasetId(dataset_name, now)
        parsed_files == LimitFiles(listing, max_documents)
        r == BulkLoop(parsed_files, 1, dataset_name,
                      [documents |-> documents, embeddings |-> embeddings,
                       total_indexed |-> 0, failed_files |-> <<>>])
        new_stats == StatsAfterIndex(stats, indexed_datasets, dataset_id, r.total_indexed, now)
    IN  /\ Len(r.documents) <= MaxDocs
        /\ documents' = r.documents
        /\ embeddings' = r.embeddings
        /\ indexed_datasets' = indexed_datasets \cup {dataset_id}
        /\ stats' = new_stats
        /\ disk' = save_rag_index(saving, disk, r.documents, r.embeddings,
                                  indexed_datasets \cup {dataset_id}, new_stats)
        /\ last' = SavedResponse(saving, "bulk", request, 200,
                      [dataset_id |-> dataset_id,
                       total_files_processed |-> Len(parsed_files),
                       total_documents_indexed |-> r.total_indexed,
                       failed_files |-> Len(r.failed_files),
                       failures |-> r.failed_files,
                       total_rag_documents |-> new_stats.total_documents])
        /\ UNCHANGED <<cache, exports, now>>

-----------------------------------------------------------------------------
(* POST /rag/index-dataset-file: index an exported dataset.                *)

\* f"{file_id}_export"
ExportName(file_id) == file_id \o <<"_", "e", "x", "p", "o", "r", "t">>

load_exported_dataset(file_id) ==
    [id |-> file_id, name |-> ExportName(file_id), data |-> exports[file_id].rows,
     format |-> exports[file_id].format, row_count |-> Len(exports[file_id].rows)]

index_exported_dataset_for_rag(file_id, req_name, saving) ==
    LET request == IndexRequest(file_id, req_name) IN
    IF ~exports[file_id].exists
    THEN /\ last' = Response("index_file", request, 404, NoBody)
         /\ UNCHANGED <<store, cache, exports, disk, now>>
    ELSE
    LET dataset == load_exported_dataset(file_id)
        dataset_name == NameOr(req_name, dataset.name)
        rag_documents == convert_dataset_to_rag_documents(dataset)
        r == IndexBatch(rag_documents, documents, embeddings)
        new_stats == StatsAfterIndex(stats, indexed_datasets, file_id, r.indexed_count, now)
    IN  /\ Len(r.documents) <= MaxDocs
        /\ documents' = r.documents
        /\ embeddings' = r.embeddings
        /\ IF r.raised
           THEN /\ last' = Response("index_file", request, 500, NoBody)
                /\ UNCHANGED <<indexed_datasets, stats, disk>>
           ELSE /\ indexed_datasets' = indexed_datasets \cup {file_id}
                /\ stats' = new_stats
                /\ disk' = save_rag_index(saving, disk, r.documents, r.embeddings,
                                          indexed_datasets \cup {file_id}, new_stats)
                /\ last' = SavedResponse(saving, "index_file", request, 200,
                              [file_id |-> file_id, dataset_name |-> dataset_name,
                               format |-> dataset.format, total_rows |-> dataset.row_count,
                               indexed_documents |-> r.indexed_count,
                               total_rag_documents |-> new_stats.total_documents])
        /\ UNCHANGED <<cache, exports, now>>

-----------------------------------------------------------------------------
(* POST /rag/search                                                        *)

\* Optional request fields: None is JNull, a number is JNum
DefaultThreshold == 10

\* the request's threshold ignored
threshold_value_Default(threshold) == DefaultThreshold

\* request.threshold if request.threshold is not None else 0.1
threshold_value(threshold) ==
    IF threshold.t # "null" THEN threshold.n ELSE DefaultThreshold

\* similarity >= threshold_value
PassesThreshold(similarity, threshold) == similarity >= threshold

\* datasetIds of a request: None, or a list of ids
NoFilter == [none |-> TRUE, ids |-> <<>>]
Filter(list) == [none |-> FALSE, ids |-> list]

InList(x, list) == \E k \in 1..Len(list) : list[k] = x

\* the documents searched: all, or those of the listed datasets when the list
\* is truthy
search_documents(docs, datasetIds) ==
    IF ~datasetIds.none /\ datasetIds.ids # <<>>
    THEN LET Listed(doc) == InList(doc.datasetId, datasetIds.ids) IN SelectSeq(docs, Listed)
    ELSE docs

\* the entry appended for a document that passes the threshold
MatchOf(doc, similarity, threshold) ==
    IF PassesThreshold(similarity, threshold)
    THEN <<[document |-> doc, similarity |-> similarity, relevanceScore |-> similarity]>>
    ELSE <<>>

RECURSIVE Matches(_, _, _, _, _)
\* the "Calculate similarities" loop: a document without a stored vector is
\* skipped
Matches(docs, i, embs, query_embedding, threshold) ==
    IF i > Len(docs) THEN <<>>
    ELSE LET doc == docs[i]
         IN  (IF doc.id \in DOMAIN embs
              THEN MatchOf(doc, cosine_similarity(Components(query_embedding),
                                                  Components(embs[doc.id])), threshold)
              ELSE <<>>)
             \o Matches(docs, i + 1, embs, query_embedding, threshold)

RECURSIVE InsertBySimilarity_Unstable(_, _)
\* r goes before the entries of equal similarity
InsertBySimilarity_Unstable(sorted, r) ==
    IF sorted = <<>> THEN <<r>>
    ELSE IF Head(sorted).similarity > r.similarity
         THEN <<Head(sorted)>> \o InsertBySimilarity_Unstable(Tail(sorted), r)
         ELSE <<r>> \o sorted

RECURSIVE InsertBySimilarity(_, _)
\* r goes after every entry whose similarity is at least r's (r came later in
\* the list being sorted)
InsertBySimilarity(sorted, r) ==
    IF sorted = <<>> THEN <<r>>
    ELSE IF Head(sorted).similarity >= r.similarity
         THEN <<Head(sorted)>> \o InsertBySimilarity(Tail(sorted), r)
         ELSE <<r>> \o sorted

RECURSIVE SortFrom(_, _, _)
SortFrom(results, i, sorted) ==
    IF i > Len(results) THEN sorted
    ELSE SortFrom(results, i + 1, InsertBySimilarity(sorted, results[i]))

\* results.sort(key=similarity, reverse=True): stable, descending
SortBySimilarity(results) == SortFrom(results, 1, <<>>)

\* results[:topK]: None keeps all, a negative topK drops from the end
LimitResults(results, topK) ==
    IF topK.t = "null" THEN results
    ELSE IF topK.n >= 0 THEN Truncate(results, topK.n)
    ELSE IF Len(results) + topK.n > 0 THEN SubSeq(results, 1, Len(results) + topK.n)
    ELSE <<>>

SearchRequest(q, k, t, ids) ==
    [query |-> q, topK |-> k, threshold |-> t, datasetIds |-> ids]

\* the body of a successful search response
SearchBody(request) ==
    IF documents = <<>>
    THEN [results |-> <<>>, total_results |-> 0]
    ELSE LET query_embedding == create_simple_embedding(request.query)
             results == Matches(search_documents(documents, request.datasetIds), 1,
                                embeddings, query_embedding,
                                threshold_value(request.threshold))
             limited_results == LimitResults(SortBySimilarity(results), request.topK)
         IN  [results |-> limited_results, total_results |-> Len(limited_results)]

\* an empty store answered with an error
SearchResponse_EmptyIsError(request) ==
    Response("search", request, IF documents = <<>> THEN 500 ELSE 200, SearchBody(request))

\* the JSONResponse of a search: status 200 on both paths
SearchResponse(request) == Response("search", request, 200, SearchBody(request))

search_rag(query, topK, threshold, datasetIds) ==
    LET request == SearchRequest(query, topK, threshold, datasetIds)
    IN  /\ last' = SearchResponse(request)
        /\ UNCHANGED <<store, cache, exports, disk, now>>

-----------------------------------------------------------------------------
(* POST /rag/context                                                       *)
(* A literal of the source is kept as one piece of the text it is part of. *)

\* the decimal digits of a natural number
RECURSIVE Digits(_)
Digits(n) ==
    LET digit == <<"0", "1", "2", "3", "4", "5", "6", "7", "8", "9">>[(n % 10) + 1]
    IN  IF n < 10 THEN <<digit>> ELSE Digits(n \div 10) \o <<digit>>

\* f"{(relevanceScore * 100):.1f}": a score of h hundredths is h percent
OneDecimal(h) == (IF h < 0 THEN <<"-">> \o Digits(0 - h) ELSE Digits(h)) \o <<".", "0">>

system_prompt == <<"You are a helpful document analysis assistant.">>

\* the prompt without the query
EmptyContextPrompt_NoQuery(query) == system_prompt \o <<"\n\nUser Query: ">>

\* the prompt returned when the search gave no result
EmptyContextPrompt(query) == system_prompt \o <<"\n\nUser Query: ">> \o query

\* doc['metadata']['page'] raises KeyError for a document whose metadata has
\* no page
ContextRaises(results) ==
    \E k \in 1..Len(results) : "page" \notin DOMAIN results[k].document.metadata

\* the entry appended to context_parts for a result
ContextPart(result) ==
    LET doc == result.document
    IN  [source |-> doc.datasetName \o <<" (Page ">> \o Digits(doc.metadata.page) \o <<")">>,
         content |-> doc.fullText.s,
         relevanceScore |-> result.relevanceScore]

context_parts(results) == [k \in 1..Len(results) |-> ContextPart(results[k])]

RECURSIVE context_section(_, _)
\* "\n".join of the text of each entry, from entry i on
context_section(parts, i) ==
    IF i > Len(parts) THEN <<>>
    ELSE (IF i > 1 THEN <<"\n">> ELSE <<>>)
         \o <<"[Context ">> \o Digits(i) \o <<"] (Relevance: ">>
         \o OneDecimal(parts[i].relevanceScore) \o <<"%)\n">>
         \o <<"Source: ">> \o parts[i].source \o <<"\n">>
         \o <<"Content: ">> \o parts[i].content \o <<"\n">>
         \o context_section(parts, i + 1)

full_prompt(parts, query) ==
    system_prompt \o <<"\n\n">>
    \o <<"Retrieved Context:\n">> \o context_section(parts, 1) \o <<"\n">>
    \o <<"User Query: ">> \o query \o <<"\n\n">>
    \o <<"Please answer the user's query using the provided context when relevant.">>

\* the handler: the search, then the context built from its results; an
\* exception becomes a 500
build_rag_context(query, topK, threshold, datasetIds) ==
    LET request == SearchRequest(query, topK, threshold, datasetIds)
        results == SearchBody(request).results
    IN  /\ last' =
              IF results = <<>>
              THEN Response("context", request, 200,
                       [prompt |-> EmptyContextPrompt(query), context |-> <<>>,
                        hasContext |-> FALSE, contextCount |-> 0])
              ELSE IF ContextRaises(results)
              THEN Response("context", request, 500, NoBody)
              ELSE Response("context", request, 200,
                       [prompt |-> full_prompt(context_parts(results), query),
                        context |-> context_parts(results),
                        hasContext |-> TRUE,
                        contextCount |-> Len(context_parts(results))])
        /\ UNCHANGED <<store, cache, exports, disk, now>>

-----------------------------------------------------------------------------
(* The environment.                                                        *)

\* a <file_id>_parsed.json appears in the cache directory from outside
CacheFileWritten(file_id, paragraphs) ==
    /\ cache[file_id] # ParsedFile(paragraphs)
    /\ cache' = [cache EXCEPT ![file_id] = ParsedFile(paragraphs)]
    /\ last' = Response("cache", [file_id |-> file_id], 200, NoBody)
    /\ UNCHANGED <<store, exports, disk, now>>

\* a <file_id>_export.csv appears in the exports directory (POST /export, or the
\* upload of a CSV)
ExportFileWritten(file_id, rows) ==
    /\ exports[file_id] # ExportFile("csv", rows)
    /\ exports' = [exports EXCEPT ![file_id] = ExportFile("csv", rows)]
    /\ last' = Response("export", [file_id |-> file_id], 200, NoBody)
    /\ UNCHANGED <<store, cache, disk, now>>

-----------------------------------------------------------------------------
\* dataset_name of index requests: absent, or "n"
RequestNames == {<<>>, <<"n">>}
\* Spec takes the index file to be writable
SaveOutcomes == {"written"}

Index ==
    /\ \E f \in FileIds, n \in RequestNames, ok \in SaveOutcomes : index_document_for_rag(f, n, ok)
    /\ UNCHANGED in_flight

IndexFile ==
    /\ \E f \in FileIds, n \in RequestNames, ok \in SaveOutcomes :
           index_exported_dataset_for_rag(f, n, ok)
    /\ UNCHANGED in_flight

BulkIndex ==
    /\ \E n \in CollectionNames, m \in MaxDocumentsChoices, ok \in SaveOutcomes :
           \E listing \in ListingOrders({f \in FileIds : cache[f].exists}) :
           index_ebook_dataset(n, m, listing, ok)
    /\ UNCHANGED in_flight

Remove ==
    /\ \E d \in FileIds \cup indexed_datasets, ok \in SaveOutcomes : remove_rag_dataset(d, ok)
    /\ UNCHANGED in_flight

ExportWrite ==
    /\ \E f \in FileIds : \E rows \in ExportedRows(f) : ExportFileWritten(f, rows)
    /\ UNCHANGED in_flight

Parse ==
    /\ \E f \in FileIds, ok \in SaveOutcomes : \E ps \in ExtractionOutputs(f) : parse_file(f, ps, ok)
    /\ UNCHANGED in_flight

CacheWrite ==
    /\ \E f \in FileIds : \E ps \in ForeignParsedData(f) : CacheFileWritten(f, ps)
    /\ UNCHANGED in_flight

Next ==
    \/ Index
    \/ IndexFile
    \/ BulkIndex
    \/ Remove
    \/ ExportWrite
    \/ Parse
    \/ CacheWrite

Spec == Init /\ [][Next]_vars

-----------------------------------------------------------------------------
(* Search over a store built by parsing, exported-dataset indexing and     *)
(* removal.                                                                *)

Queries == {<<"h", "i">>, <<"a">>}
\* topK is left at its default
TopKs == {JNum(5)}
\* thresholds of requests, in hundredths: absent, 0.0 and 0.5
Thresholds == {JNull, JNum(0), JNum(50)}
Filters == {NoFilter}

Search ==
    /\ \E q \in Queries, k \in TopKs, t \in Thresholds, ids \in Filters :
           search_rag(q, k, t, ids)
    /\ UNCHANGED in_flight

NextSearch ==
    \/ Parse
    \/ IndexFile
    \/ ExportWrite
    \/ Remove
    \/ Search

SpecSearch == Init /\ [][NextSearch]_vars

-----------------------------------------------------------------------------
(* Search with every optional request field varied, over a store built by  *)
(* parsing and removal.                                                    *)

\* queries: the texts of the two paragraphs of a two-paragraph source
ParamQueries == {<<"h", "i">>, <<"y", "o">>}
\* topK of requests: negative, zero, below and above the number of documents
ParamTopKs == {JNum(-1), JNum(0), JNum(1), JNum(5)}
\* thresholds of requests, in hundredths: absent and -1.0
ParamThresholds == {JNull, JNum(-100)}
\* datasetIds of requests: absent, the empty list, one dataset
ParamFilters == {NoFilter, Filter(<<>>), Filter(<<FileA>>)}

\* the requests: each optional field varied while the others admit every
\* document (topK 5, threshold -1.0, no filter)
ParamRequests ==
    {SearchRequest(q, k, JNum(-100), NoFilter) : q \in ParamQueries, k \in ParamTopKs}
    \cup {SearchRequest(q, JNum(5), t, NoFilter) : q \in ParamQueries, t \in ParamThresholds}
    \cup {SearchRequest(q, JNum(5), JNum(-100), ids) : q \in ParamQueries, ids \in ParamFilters}

SearchParams ==
    /\ \E r \in ParamRequests : search_rag(r.query, r.topK, r.threshold, r.datasetIds)
    /\ UNCHANGED in_flight

NextSearchParams ==
    \/ Parse
    \/ Remove
    \/ SearchParams

SpecSearchParams == Init /\ [][NextSearchParams]_vars

-----------------------------------------------------------------------------
(* Context building over a store of paragraph documents and tabular rows.  *)

\* the requests: both queries with every document admitted, and one with the
\* default threshold and topK 1
ContextRequests ==
    {SearchRequest(q, JNum(5), JNum(-100), NoFilter) : q \in ParamQueries}
    \cup {SearchRequest(<<"h", "i">>, JNum(1), JNull, NoFilter)}

Context ==
    /\ \E r \in ContextRequests : build_rag_context(r.query, r.topK, r.threshold, r.datasetIds)
    /\ UNCHANGED in_flight

NextContext ==
    \/ Parse
    \/ ExportWrite
    \/ IndexFile
    \/ Remove
    \/ Context

SpecContext == Init /\ [][NextContext]_vars

-----------------------------------------------------------------------------
(* The documented example: one paragraph, one search.                      *)

FoxText ==
    JStr(<<"T", "h", "e", " ", "q", "u", "i", "c", "k", " ", "b", "r", "o", "w", "n", " ",
           "f", "o", "x", " ", "j", "u", "m", "p", "s", " ", "o", "v", "e", "r", " ",
           "t", "h", "e", " ", "l", "a", "z", "y", " ", "d", "o", "g", ".">>)

FoxQuery == <<"q", "u", "i", "c", "k", " ", "b", "r", "o", "w", "n", " ", "f", "o", "x">>

\* what extraction yields here: the one paragraph of the example, or "hi"
ExampleExtractions == {<<Paragraph(ParagraphId(1, 0), FoxText, 1)>>, OneParagraph}

ExampleQueries == {FoxQuery}
\* thresholds in hundredths: 0.0, and the lowest similarity there is
ExampleThresholds == {JNum(0), JNum(-100)}

\* a parsed file appears in the cache
ExampleCacheWrite ==
    /\ \E f \in FileIds : \E ps \in ExampleExtractions : CacheFileWritten(f, ps)
    /\ UNCHANGED in_flight

ExampleSearch ==
    /\ \E q \in ExampleQueries, t \in ExampleThresholds : search_rag(q, JNum(5), t, NoFilter)
    /\ UNCHANGED in_flight

NextExample ==
    \/ ExampleCacheWrite
    \/ Index
    \/ Remove
    \/ ExampleSearch

SpecExample == Init /\ [][NextExample]_vars

-----------------------------------------------------------------------------
(* Two mutating requests in flight at once.  The handlers are coroutines   *)
(* of one event loop and none of the four awaits anything, so a handler,   *)
(* once entered, runs to its response before the other is entered; which   *)
(* of the two is entered first is the scheduler's choice.                  *)

MutatingRequest(k, target, name) == [kind |-> k, target |-> target, name |-> name]

\* the requests a client may submit
MutatingRequests ==
    {MutatingRequest("index", f, <<>>) : f \in FileIds}
    \cup {MutatingRequest("index_file", FileAB, <<>>)}
    \cup {MutatingRequest("bulk", <<>>, n) : n \in CollectionNames}
    \cup {MutatingRequest("remove", f, <<>>) : f \in FileIds}

\* the handler of a request, run to its response
Handle(request) ==
    CASE request.kind = "index" -> index_document_for_rag(request.target, request.name, "written")
      [] request.kind = "index_file" ->
             index_exported_dataset_for_rag(request.target, request.name, "written")
      [] request.kind = "bulk" ->
             \E listing \in ListingOrders({f \in FileIds : cache[f].exists}) :
                 index_ebook_dataset(request.name, 0, listing, "written")
      [] OTHER -> remove_rag_dataset(request.target, "written")

\* unique ids, a vector per document, statistics matching the store
StoreConsistent ==
    /\ \A i, j \in 1..Len(documents) : documents[i].id = documents[j].id => i = j
    /\ DOMAIN embeddings = {documents[i].id : i \in 1..Len(documents)}
    /\ stats.total_documents = Len(documents)

\* two clients submit a request each while none is in flight
Submit ==
    /\ in_flight.requests = <<>>
    /\ \E r1, r2 \in MutatingRequests :
           in_flight' = [requests |-> <<r1, r2>>, done |-> {}, held |-> StoreConsistent]
    /\ UNCHANGED <<store, cache, exports, disk, now, last>>

\* the event loop enters the handler of a request not yet served
Serve ==
    /\ \E i \in DOMAIN in_flight.requests \ in_flight.done :
           /\ Handle(in_flight.requests[i])
           /\ in_flight' = [in_flight EXCEPT !.done = @ \cup {i}]

\* both responses are out
Settle ==
    /\ in_flight.requests # <<>>
    /\ in_flight.done = DOMAIN in_flight.requests
    /\ in_flight' = NoneInFlight
    /\ UNCHANGED <<store, cache, exports, disk, now, last>>

\* files appear between rounds of requests
ConcurrentCacheWrite ==
    /\ in_flight.requests = <<>>
    /\ \E f \in FileIds : CacheFileWritten(f, OneParagraph)
    /\ UNCHANGED in_flight

ConcurrentExportWrite ==
    /\ in_flight.requests = <<>>
    /\ ExportWrite

NextConcurrent ==
    \/ ConcurrentCacheWrite
    \/ ConcurrentExportWrite
    \/ Submit
    \/ Serve
    \/ Settle

SpecConcurrent == Init /\ [][NextConcurrent]_vars

-----------------------------------------------------------------------------
(* Document ids: the two converters applied to pairs of source records.    *)

FileB == <<"b">>
IdDatasets == {FileA, FileAB, FileB}

\* a source record: a paragraph with its id, or a row with its index
ParagraphRecord(pid) == [kind |-> "paragraph", id |-> pid, idx |-> 0]
RowRecord(i) == [kind |-> "row", id |-> <<>>, idx |-> i]

\* paragraph ids as parse_file writes them, one from a cache file of another
\* origin, and a row
SourceRecords ==
    {ParagraphRecord(ParagraphId(1, 0)), ParagraphRecord(ParagraphId(1, 1)),
     ParagraphRecord(FileB \o <<"_">> \o ParagraphId(1, 0)), RowRecord(0)}

\* rag_doc["id"] of the document a converter makes of a source record
DocumentIdOf(dataset_id, record) ==
    IF record.kind = "paragraph"
    THEN convert_parsed_data_to_rag_documents(
             dataset_id, <<Paragraph(record.id, TextHi, 1)>>, DefaultName(dataset_id))[1].id
    ELSE RowDocId(dataset_id, record.idx)

ConvertPair ==
    /\ \E d1, d2 \in IdDatasets, r1, r2 \in SourceRecords :
           last' = Response("convert",
                       [first  |-> [datasetId |-> d1, record |-> r1],
                        second |-> [datasetId |-> d2, record |-> r2]],
                       200,
                       [ids |-> <<DocumentIdOf(d1, r1), DocumentIdOf(d2, r2)>>])
    /\ UNCHANGED <<store, cache, exports, disk, now, in_flight>>

NextIds == ConvertPair

SpecIds == Init /\ [][NextIds]_vars

-----------------------------------------------------------------------------
(* Tabular rows of a JSONL export: values of every JSON type.              *)

\* the values of a field: text, empty and blank text, numbers, null
FieldValues ==
    {JStr(<<"v">>), JStr(<<>>), JStr(<<" ">>), JNum(0), JNum(1), JNull}

\* the datasets of one row with the fields c and n, in that order
JsonlRows ==
    { << <<Field(<<"c">>, v), Field(<<"n">>, w)>> >> : v, w \in FieldValues }

\* a <file_id>_export.jsonl appears in the exports directory (POST /export
\* with format jsonl)
JsonlExportWrite ==
    /\ \E rows \in JsonlRows :
           /\ exports[FileAB] # ExportFile("jsonl", rows)
           /\ exports' = [exports EXCEPT ![FileAB] = ExportFile("jsonl", rows)]
           /\ last' = Response("export", [file_id |-> FileAB], 200, NoBody)
    /\ UNCHANGED <<store, cache, disk, now, in_flight>>

NextRows ==
    \/ JsonlExportWrite
    \/ IndexFile
    \/ Remove

SpecRows == Init /\ [][NextRows]_vars

-----------------------------------------------------------------------------
(* cosine_similarity applied to pairs of vectors.                          *)

\* components in hundredths
VectorComponents == {-100, 0, 50}

\* the vectors of one and of two components
Vectors ==
    {<<x>> : x \in VectorComponents} \cup {<<x, y>> : x, y \in VectorComponents}

Similarity ==
    /\ \E a, b \in Vectors :
           last' = Response("similarity", [a |-> a, b |-> b], 200,
                       [ab |-> cosine_similarity(a, b), ba |-> cosine_similarity(b, a)])
    /\ UNCHANGED <<store, cache, exports, disk, now, in_flight>>

NextSimilarity == Similarity

SpecSimilarity == Init /\ [][NextSimilarity]_vars

-----------------------------------------------------------------------------
(* Persistence: saves that fail, index files written from outside, and the *)
(* load at the start of a process.                                         *)

\* how a save can go: see save_rag_index
PersistSaveOutcomes == {"written", "refused", "torn"}

\* a document as a foreign index file lists it
ForeignDocument ==
    convert_parsed_data_to_rag_documents(FileA, OneParagraph, DefaultName(FileA))[1]

\* index files that are not what save_rag_index writes: text that is no JSON,
\* an object whose "embeddings" is an array, an object whose
\* "indexed_datasets" is a number
CorruptIndexFiles ==
    {UnparseableIndexFile,
     IndexFileContent("json", JArray(<<ForeignDocument>>), JArray(<<>>), JArray(<<>>),
                      JAbsent),
     IndexFileContent("json", JArray(<<ForeignDocument>>),
                      JObject(<<Member(ForeignDocument.id,
                                       create_simple_embedding(TextHi.s))>>),
                      JNumber, JAbsent)}

\* rag_index.json is replaced from outside the process
IndexFileWritten(file) ==
    /\ disk # file
    /\ disk' = file
    /\ last' = Response("index_file_written", [none |-> TRUE], 200, NoBody)
    /\ UNCHANGED <<store, cache, exports, now>>

\* a new process: rag_index is built empty, then load_rag_index() runs at import
Startup ==
    LET loaded == load_rag_index(disk, EmptyStore)
    IN  /\ documents' = loaded.documents
        /\ embeddings' = loaded.embeddings
        /\ indexed_datasets' = loaded.indexed_datasets
        /\ stats' = loaded.stats
        /\ last' = Response("load", [none |-> TRUE], 200, NoBody)
        /\ UNCHANGED <<cache, exports, disk, now, in_flight>>

ParsePersist ==
    /\ \E f \in FileIds, saving \in PersistSaveOutcomes :
           \E ps \in ExtractionOutputs(f) : parse_file(f, ps, saving)
    /\ UNCHANGED in_flight

IndexPersist ==
    /\ \E f \in FileIds, saving \in PersistSaveOutcomes :
           index_document_for_rag(f, <<>>, saving)
    /\ UNCHANGED in_flight

RemovePersist ==
    /\ \E d \in FileIds, saving \in PersistSaveOutcomes :
           remove_rag_dataset(d, saving)
    /\ UNCHANGED in_flight

IndexFileCorrupted ==
    /\ \E file \in CorruptIndexFiles : IndexFileWritten(file)
    /\ UNCHANGED in_flight

NextPersist ==
    \/ ParsePersist
    \/ IndexPersist
    \/ RemovePersist
    \/ IndexFileCorrupted
    \/ Startup

SpecPersist == Init /\ [][NextPersist]_vars

-----------------------------------------------------------------------------
(* Properties.                                                             *)

DocIds == {documents[i].id : i \in 1..Len(documents)}

\* C1: no two documents in the Document Store have the same id.
C1_UniqueIds ==
    \A i, j \in 1..Len(documents) : documents[i].id = documents[j].id => i = j

\* C2: an index(sourceId) served right after a successful index(sourceId) of
\* the same source succeeds, reports 0 indexed paragraphs and leaves the
\* documents, the vectors, the indexed-dataset set and totalDocuments as the
\* first call left them.
C2_IndexIdempotent ==
    [][(/\ last.op = "index" /\ last.status = 200
        /\ last'.op = "index" /\ last'.request.file_id = last.request.file_id)
        => /\ last'.status = 200
           /\ last'.body.indexed_paragraphs = 0
           /\ documents' = documents
           /\ embeddings' = embeddings
           /\ indexed_datasets' = indexed_datasets
           /\ stats'.total_documents = stats.total_documents
           /\ last'.body.total_documents = last.body.total_documents]_vars

\* an index request repeated right after it succeeded, on a source with paragraphs
C2_Witness ==
    /\ last.op = "index" /\ last.status = 200 /\ last.repeat
    /\ cache[last.request.file_id].paragraphs # <<>>
    /\ documents # <<>>

\* C3: a removeDataset(d) that succeeds leaves no document of d, no vector of a
\* document that d had, and d out of the indexed-dataset set.
C3_RemovalComplete ==
    [][(last'.op = "remove" /\ last'.status = 200)
        => LET d == last'.request.dataset_id
           IN  /\ \A i \in 1..Len(documents') : documents'[i].datasetId # d
               /\ \A i \in 1..Len(documents) :
                     documents[i].datasetId = d => documents[i].id \notin DOMAIN embeddings'
               /\ d \notin indexed_datasets']_vars

\* a removal that took documents away and left others in the store
C3_Witness ==
    /\ last.op = "remove" /\ last.status = 200
    /\ last.body.removed_documents > 0
    /\ documents # <<>>
    /\ stats.total_documents = Len(documents)

\* C4: the removed count a successful removeDataset returns is the number of
\* documents it took out of the store, and the decrease of totalDocuments.
C4_RemovedCount ==
    [][(last'.op = "remove" /\ last'.status = 200)
        => /\ last'.body.removed_documents = Len(documents) - Len(documents')
           /\ last'.body.removed_documents
                  = stats.total_documents - stats'.total_documents]_vars

\* C5: an id has a vector exactly when a document with that id is in the store.
C5_VectorPerDocument == DOMAIN embeddings = DocIds

\* C6: every identifier in the indexed-dataset set owns a document of the store.
C6_IndexedDatasetOwnsDocument ==
    \A d \in indexed_datasets : \E i \in 1..Len(documents) : documents[i].datasetId = d

\* C7: the datasetId of every stored document is in the indexed-dataset set.
C7_DocumentDatasetIndexed ==
    \A i \in 1..Len(documents) : documents[i].datasetId \in indexed_datasets

\* C8: totalDocuments of the statistics is the number of stored documents.
C8_TotalDocuments == stats.total_documents = Len(documents)

\* C9: the indexed-dataset count of the statistics is the number of distinct
\* datasetId values among the stored documents.
C9_DatasetCount ==
    stats.indexed_datasets
        = Cardinality({documents[i].datasetId : i \in 1..Len(documents)})

\* C10: no result of a search has a similarity below the request's threshold,
\* 0.1 when the request gives none.
C10_SearchRespectsThreshold ==
    last.op = "search" =>
        LET T == IF last.request.threshold.t = "null" THEN 10
                 ELSE last.request.threshold.n
        IN  \A k \in 1..Len(last.body.results) : last.body.results[k].similarity >= T

\* a search that returned a document and held back another that has a vector
C10_Witness ==
    /\ last.op = "search"
    /\ last.body.total_results > 0
    /\ \E i \in 1..Len(documents) :
          /\ documents[i].id \in DOMAIN embeddings
          /\ \A k \in 1..Len(last.body.results) :
                last.body.results[k].document # documents[i]

\* C11: a search whose request gives an integer topK = K returns at most K
\* results, for zero and negative K too.
C11_AtMostTopK ==
    (last.op = "search" /\ last.request.topK.t = "num")
        => Len(last.body.results) <= last.request.topK.n

\* the entries that pass the threshold, in Document Store order
CandidatesOf(request) ==
    Matches(search_documents(documents, request.datasetIds), 1, embeddings,
            create_simple_embedding(request.query), threshold_value(request.threshold))

C13_ResultsInFilter ==
    (last.op = "search" /\ ~last.request.datasetIds.none)
        => \A k \in 1..Len(last.body.results) :
              InList(last.body.results[k].document.datasetId, last.request.datasetIds.ids)

\* C14: a search on an empty Document Store succeeds with no results and
\* totalResults 0, whatever the query, topK and threshold.
C14_EmptyStoreSearch ==
    (last.op = "search" /\ documents = <<>>)
        => /\ last.status = 200
           /\ last.body.results = <<>>
           /\ last.body.total_results = 0

\* a search with a negative topK and an explicit threshold on a store that
\* removal emptied
C14_Witness ==
    /\ last.op = "search"
    /\ documents = <<>>
    /\ stats.last_updated # -1
    /\ last.request.topK = JNum(-1)
    /\ last.request.threshold = JNum(-100)

MutatingOps == {"index", "parse", "bulk", "index_file", "remove"}

\* C16: after a mutating operation that succeeds and whose save succeeds, the
\* file holds the store as the operation left it: a process started from it
\* loads exactly that store.
C16_SavedAfterMutation ==
    [][(last'.op \in MutatingOps /\ last'.status = 200 /\ last'.save = "written")
        => load_rag_index(disk', EmptyStore)
              = [documents |-> documents', embeddings |-> embeddings',
                 indexed_datasets |-> indexed_datasets', stats |-> stats']]_vars

\* a bulk index that passed over a failing source, inserted a document and saved
C16_Witness ==
    /\ last.op = "bulk" /\ last.status = 200 /\ last.save = "written"
    /\ last.body.failed_files > 0
    /\ last.body.total_documents_indexed > 0
    /\ disk = save_data(documents, embeddings, indexed_datasets, stats)

\* C17: a mutating operation whose save fails still succeeds and keeps its
\* mutation in memory (the dataset indexed is in the set, the dataset removed
\* is not), and the file is left at its previous content.
C17_SaveFailureKeepsFile ==
    [][(last'.op \in MutatingOps /\ last'.save \in {"refused", "torn"})
        => /\ last'.status = 200
           /\ last'.op \in {"index", "parse", "index_file"}
                 => last'.request.file_id \in indexed_datasets'
           /\ last'.op = "remove" => last'.request.dataset_id \notin indexed_datasets'
           /\ disk' = disk]_vars

\* what load_rag_index reads without raising: a JSON object whose fields, when
\* present, have the types save_rag_index writes
WellFormed(file) ==
    /\ file.kind = "json"
    /\ file.documents.t \in {"array", "absent"}
    /\ file.embeddings.t \in {"object", "absent"}
    /\ file.indexed_datasets.t \in {"array", "absent"}
    /\ file.stats.t \in {"object", "absent"}

\* C18: after the load at startup from a file that is absent or corrupt, the
\* Document Store is empty.
C18_CorruptFileLoadsEmpty ==
    (last.op = "load" /\ ~WellFormed(disk))
        => /\ documents = <<>>
           /\ embeddings = <<>>
           /\ indexed_datasets = {}
           /\ stats = InitStats

\* the ids of the documents a parsed source converts to
SourceDocIds(f) ==
    {ParagraphDocId(f, cache[f].paragraphs[i].id) : i \in 1..Len(cache[f].paragraphs)}

\* a parsed source with a paragraph that cannot be embedded
CorruptSource(f) ==
    \E i \in 1..Len(cache[f].paragraphs) : EmbeddingRaises(cache[f].paragraphs[i].text)

\* C19: a bulkIndex without a limit over the N parsed sources succeeds and
\* reports N files processed; its failures list names each failing source
\* once, and only sources that are corrupt; every source it does not name had
\* all its documents indexed, wherever it comes in the listing; and the
\* documents-indexed count is the number of documents the call added for the
\* sources that did not fail.
C19_BulkPartialFailure ==
    [][(last'.op = "bulk" /\ last'.request.listing # <<>>
                          /\ last'.request.max_documents = 0)
        => LET sources == {f \in FileIds : cache[f].exists}
               failures == last'.body.failures
               failed == {failures[i] : i \in 1..Len(failures)}
               added == {i \in (Len(documents) + 1)..Len(documents') :
                            documents'[i].datasetId \notin failed}
           IN  /\ last'.status = 200
               /\ last'.body.total_files_processed = Cardinality(sources)
               /\ last'.body.failed_files = Len(failures)
               /\ Cardinality(failed) = Len(failures)
               /\ \A f \in failed : f \in sources /\ CorruptSource(f)
               /\ \A f \in sources \ failed : SourceDocIds(f) \subseteq DOMAIN embeddings'
               /\ last'.body.total_documents_indexed = Cardinality(added)]_vars

\* a bulk index that met the corrupt source first, recorded it, and went on to
\* index the document of the source listed after it
C19_Witness ==
    /\ last.op = "bulk" /\ last.status = 200
    /\ last.request.max_documents = 0
    /\ Len(last.request.listing) = 2
    /\ last.request.listing[1] = FileA
    /\ last.body.failures = <<FileA>>
    /\ last.body.total_files_processed = 2
    /\ last.body.total_documents_indexed = 1
    /\ documents[Len(documents)].datasetId = FileAB

\* C20: an operation answered with NotFound leaves the documents, the
\* vectors, the Indexed-Dataset Set, the statistics and the persisted file as
\* they were.
C20_NotFoundChangesNothing ==
    [][(last'.status = 404)
        => /\ last'.op \in {"index", "index_file", "bulk", "remove"}
           /\ documents' = documents
           /\ embeddings' = embeddings
           /\ indexed_datasets' = indexed_datasets
           /\ stats' = stats
           /\ disk' = disk]_vars

\* a removeDataset of an id that is not indexed, answered NotFound while the
\* store holds documents and the file a saved store
C20_Witness ==
    /\ last.op = "remove" /\ last.status = 404
    /\ documents # <<>>
    /\ disk.kind = "json"

\* text contains part as a run of consecutive pieces
Contains(text, part) ==
    \E i \in 0..(Len(text) - Len(part)) : SubSeq(text, i + 1, i + Len(part)) = part

\* C21: buildContext on an empty store succeeds with hasContext false,
\* contextCount 0, an empty context list and a prompt that contains the query.
C21_EmptyStoreContext ==
    (last.op = "context" /\ documents = <<>>)
        => /\ last.status = 200
           /\ last.body.hasContext = FALSE
           /\ last.body.contextCount = 0
           /\ last.body.context = <<>>
           /\ Contains(last.body.prompt, last.request.query)

\* a context request on a store that removal emptied
C21_Witness ==
    /\ last.op = "context"
    /\ documents = <<>>
    /\ stats.last_updated # -1
    /\ last.request.query = <<"y", "o">>

\* C22: buildContext succeeds on every reachable store and returns one entry
\* per result of the search with the same parameters, in the same order, with
\* contextCount their number and hasContext true exactly when it is positive.
C22_ContextPerResult ==
    last.op = "context" =>
        LET results == SearchBody(last.request).results
        IN  /\ last.status = 200
            /\ Len(last.body.context) = Len(results)
            /\ \A k \in 1..Len(results) :
                  /\ last.body.context[k].content = results[k].document.fullText.s
                  /\ last.body.context[k].relevanceScore = results[k].similarity
            /\ last.body.contextCount = Len(results)
            /\ last.body.hasContext = (Len(results) > 0)

\* C23: with the paragraph "The quick brown fox jumps over the lazy dog." as
\* the only document, search("quick brown fox", topK 5, threshold 0.0) returns
\* exactly one result, which references that document and has a similarity
\* in [-1, 1].
C23_FoxExample ==
    (/\ last.op = "search"
     /\ last.request = SearchRequest(FoxQuery, JNum(5), JNum(0), NoFilter)
     /\ Len(documents) = 1
     /\ documents[1].fullText = FoxText)
        => /\ last.status = 200
           /\ Len(last.body.results) = 1
           /\ last.body.results[1].document.id = documents[1].id
           /\ last.body.results[1].similarity \in -100..100

\* C24: when two mutating requests submitted together on a consistent store
\* have both been served, the store has unique ids, a vector per document and
\* statistics that match it.
C24_ConcurrentKeepsInvariants ==
    (in_flight.held /\ in_flight.done = {1, 2}) => StoreConsistent

\* C25: two source records that differ in datasetId or in sourceRecordId
\* receive different document ids.
C25_IdInjective ==
    last.op = "convert" =>
        (last.request.first # last.request.second => last.body.ids[1] # last.body.ids[2])

\* a field whose value is present and not blank when rendered as text
Qualifies(field) == field.value.t # "null" /\ Strip(Render(field.value)) # <<>>

\* the text the row is to have: "<name>: <value>" of the qualifying fields in
\* order, joined by " | ", or "Row <index>" when there is none
ExpectedRowText(row, idx) ==
    LET kept == SelectSeq(row, Qualifies)
    IN  IF kept = <<>> THEN <<"R", "o", "w", " ">> \o IntToStr(idx)
        ELSE JoinFields(kept, 1)

\* C26: the fullText of every document that indexExportedDataset inserts for a
\* row is the " | " join, in field order, of "<name>: <value>" over the fields
\* whose value is present and not blank when rendered, and "Row <index>" when
\* no field qualifies.
C26_RowFullText ==
    [][(last'.op = "index_file" /\ last'.status = 200)
        => \A i \in (Len(documents) + 1)..Len(documents') :
              LET doc == documents'[i]
              IN  doc.fullText
                    = JStr(ExpectedRowText(exports[doc.datasetId].rows[doc.rowIndex + 1],
                                           doc.rowIndex))]_vars

\* C27: when an index or indexExportedDataset request that gives a
\* datasetName succeeds, every document it inserts carries that name, and the
\* name in the response is the name stored on those documents.
C27_RequestNameStored ==
    [][(/\ last'.op \in {"index", "index_file"}
        /\ last'.status = 200
        /\ last'.request.dataset_name # <<>>)
        => \A i \in (Len(documents) + 1)..Len(documents') :
              /\ documents'[i].datasetName = last'.request.dataset_name
              /\ documents'[i].datasetName = last'.body.dataset_name]_vars

\* every component of the vector is 0
ZeroMagnitude(a) == \A k \in 1..Len(a) : a[k] = 0

\* C28: similarity(a, b) = similarity(b, a) for every pair of vectors, and
\* the similarity is 0 when either vector has zero magnitude.
C28_SimilaritySymmetric ==
    last.op = "similarity" =>
        /\ last.body.ab = last.body.ba
        /\ (ZeroMagnitude(last.request.a) \/ ZeroMagnitude(last.request.b))
              => last.body.ab = 0

\* a vector of zero magnitude compared with one that has a magnitude
C28_Witness ==
    /\ last.op = "similarity"
    /\ last.request.a = <<0, 0>>
    /\ last.request.b = <<50, -100>>
    /\ last.body.ab = 0

\* the documents of dataset e in docs, in order
DocumentsOf(docs, e) == SelectSeq(docs, LAMBDA doc : doc.datasetId = e)

\* C29: a removeDataset(d) that succeeds leaves, for every other dataset e,
\* the documents of e, the vectors of those documents and the membership of e
\* in the indexed-dataset set as they were.
C29_RemovalFrame ==
    [][(last'.op = "remove" /\ last'.status = 200)
        => \A e \in (FileIds \cup indexed_datasets) \ {last'.request.dataset_id} :
              /\ DocumentsOf(documents', e) = DocumentsOf(documents, e)
              /\ \A i \in 1..Len(documents) :
                    (documents[i].datasetId = e /\ documents[i].id \in DOMAIN embeddings)
                        => /\ documents[i].id \in DOMAIN embeddings'
                           /\ embeddings'[documents[i].id] = embeddings[documents[i].id]
              /\ (e \in indexed_datasets') = (e \in indexed_datasets)]_vars

\* C30: an index or indexExportedDataset request that ends with an internal
\* error leaves the documents, the vectors, the indexed-dataset set and the
\* statistics as they were before it.
C30_FailedIndexNoPartialWork ==
    [][(last'.op \in {"index", "index_file"} /\ last'.status = 500)
        => store' = store]_vars
=============================================================================
